---- MODULE Spec2Model ----
(***************************************************************************)
(* Model of services/surfaceflinger/Scheduler/SchedulerUtils.h:            *)
(* ConnectionHandle (id, operator bool, operator==, std::hash) and the     *)
(* statistical reducers calculate_mean, calculate_median, calculate_mode.  *)
(*                                                                         *)
(* TLC's integers are 32 bits wide, so a C++ integer of w bits is kept as  *)
(* a little-endian sequence of w/16 limbs, each in 0 .. 2^16 - 1, in two's *)
(* complement.  int64_t is four limbs, int is two limbs, uintptr_t is two  *)
(* or four limbs depending on the build.  All arithmetic below is exact at *)
(* those widths.                                                           *)
(***************************************************************************)
EXTENDS Integers, Sequences, FiniteSets, TLC

\* ------------------------------------------------------------------------
\* Limb arithmetic (fixed-width two's complement)
\* ------------------------------------------------------------------------

Base == 2^16

I64Limbs == 64 \div 16

I32Limbs == 32 \div 16

\* Width used for the exact (mathematical) reference values of the claims:
\* wide enough that no sum or product of the model can wrap.
WideLimbs == I64Limbs + 2

Zeros(n) == [i \in 1..n |-> 0]

IsNeg(a) == a[Len(a)] >= Base \div 2

\* Sign extension (value-preserving widening conversion).
Extend(a, n) ==
    [i \in 1..n |-> IF i <= Len(a) THEN a[i] ELSE IF IsNeg(a) THEN Base - 1 ELSE 0]

\* Narrowing conversion: keeps the low n limbs.
Truncate(a, n) == SubSeq(a, 1, n)

RECURSIVE AddLimbs(_, _, _)
AddLimbs(a, b, c) ==
    IF a = <<>> THEN <<>>
    ELSE LET s == Head(a) + Head(b) + c
         IN  <<s % Base>> \o AddLimbs(Tail(a), Tail(b), s \div Base)

\* a + b modulo 2^(16 * Len(a)).
Add(a, b) == AddLimbs(a, b, 0)

Neg(a) == AddLimbs([i \in 1..Len(a) |-> Base - 1 - a[i]], Zeros(Len(a)), 1)

Sub(a, b) == Add(a, Neg(b))

\* The signed addition a + b does not fit in the width of a and b.
AddOverflows(a, b) == IsNeg(a) = IsNeg(b) /\ IsNeg(Add(a, b)) # IsNeg(a)

\* A small TLC integer as an n-limb two's complement value.
FromInt(k, n) ==
    IF k >= 0 THEN [i \in 1..n |-> IF i = 1 THEN k ELSE 0]
    ELSE Neg([i \in 1..n |-> IF i = 1 THEN -k ELSE 0])

RECURSIVE ULess(_, _, _)
ULess(a, b, i) ==
    IF i = 0 THEN FALSE
    ELSE IF a[i] # b[i] THEN a[i] < b[i]
    ELSE ULess(a, b, i - 1)

\* Signed a < b, for a and b of the same width.
Less(a, b) ==
    IF IsNeg(a) # IsNeg(b) THEN IsNeg(a) ELSE ULess(a, b, Len(a))

\* Unsigned long division of a by the small positive integer n.
RECURSIVE URem(_, _, _)
URem(a, n, i) ==
    IF i > Len(a) THEN 0 ELSE (URem(a, n, i + 1) * Base + a[i]) % n

UDivSmall(a, n) ==
    [i \in 1..Len(a) |-> (URem(a, n, i + 1) * Base + a[i]) \div n]

\* Mutant of DivTrunc: the quotient is rounded toward minus infinity, as an
\* arithmetic shift or a floor division does.
DivFloor(a, n) ==
    IF IsNeg(a)
    THEN Neg(UDivSmall(Add(Neg(a), FromInt(n - 1, Len(a))), n))
    ELSE UDivSmall(a, n)

\* C++ signed division a / n for n > 0: the quotient is truncated toward zero.
DivTrunc(a, n) ==
    IF IsNeg(a) THEN Neg(UDivSmall(Neg(a), n)) ELSE UDivSmall(a, n)

\* The ascending arrangement of a sequence of values of one width.
RECURSIVE InsertSorted(_, _)
InsertSorted(s, x) ==
    IF s = <<>> THEN <<x>>
    ELSE IF Less(x, Head(s)) THEN <<x>> \o s
    ELSE <<Head(s)>> \o InsertSorted(Tail(s), x)

RECURSIVE Sorted(_)
Sorted(s) == IF s = <<>> THEN <<>> ELSE InsertSorted(Sorted(Tail(s)), Head(s))

\* ------------------------------------------------------------------------
\* Builds.  The header leaves three things to the build: the iteration order
\* of std::unordered_map (unspecified), the effect of signed overflow in
\* V sum (undefined) and the width of std::uintptr_t.
\* ------------------------------------------------------------------------

\* Iteration orders of std::unordered_map a build can produce.  A node-based
\* table links a new key at the head of its list ("newest_first", libstdc++
\* and libc++ while no rehash happens); a rehash or a list-backed table
\* yields the keys oldest first.  Either one is a function of the insertions.
HashOrders == {"newest_first", "oldest_first"}

\* Outcomes of a signed overflow: two's complement wrap-around (the default
\* code generation) or abort (-ftrapv, -fsanitize=signed-integer-overflow).
OverflowModes == {"wrap", "trap"}

\* ------------------------------------------------------------------------
\* Sample values: 64-bit signed integers
\* ------------------------------------------------------------------------

INT64_MAX == [i \in 1..I64Limbs |-> IF i = I64Limbs THEN Base \div 2 - 1 ELSE Base - 1]

INT64_MIN == [i \in 1..I64Limbs |-> IF i = I64Limbs THEN Base \div 2 ELSE 0]

\* 2^32 + 5: outside the range of int, inside the range of int64_t.
Above32 == [i \in 1..I64Limbs |-> IF i = 1 THEN 5 ELSE IF i = 3 THEN 1 ELSE 0]

Samples == {FromInt(-3, I64Limbs), FromInt(2, I64Limbs), FromInt(5, I64Limbs),
            Above32, INT64_MAX, INT64_MIN}

\* Longest sample sequence of the model.
MaxLen == 3

RECURSIVE SeqsUpTo(_)
SeqsUpTo(n) ==
    IF n = 0 THEN {<<>>}
    ELSE LET shorter == SeqsUpTo(n - 1)
         IN  shorter \cup {Append(s, x) : s \in {t \in shorter : Len(t) = n - 1}, x \in Samples}

VARIABLES
    v,          \* the caller's std::vector<int64_t>
    v0,         \* its contents when the call was made
    pc,         \* "idle", "done" (the call returned), "aborted" (it trapped)
    op,         \* the reducer called
    ret,        \* the value returned: [type, val]
    hashOrder,  \* the build's unordered_map iteration order
    overflowMode, \* the build's signed overflow behaviour
    a, b,       \* two ConnectionHandle objects: [id]
    aDefault,   \* a is still the default-constructed handle
    truth,      \* the bool returned by operator bool / operator==
    hashes,     \* <<hash(a), hash(b)>>
    ptrLimbs,   \* the build's width of std::uintptr_t, in limbs
    hashKind    \* the build's std::hash<std::uintptr_t>

reducerVars == <<v, v0, hashOrder, overflowMode>>

handleVars == <<a, b, aDefault, truth, hashes, ptrLimbs, hashKind>>

vars == <<v, v0, pc, op, ret, hashOrder, overflowMode,
          a, b, aDefault, truth, hashes, ptrLimbs, hashKind>>

NoRet == [type |-> "none", val |-> <<>>]

\* ------------------------------------------------------------------------
\* calculate_mean
\* ------------------------------------------------------------------------

\* std::accumulate(v.begin(), v.end(), static_cast<V>(0)) with V = int64_t:
\* sum = sum + x for each element, left to right.  The record carries the
\* wrapped sum and whether some addition overflowed.
RECURSIVE accumulate(_, _)
accumulate(s, acc) ==
    IF s = <<>> THEN acc
    ELSE accumulate(Tail(s),
                    [sum |-> Add(acc.sum, Head(s)),
                     overflowed |-> acc.overflowed \/ AddOverflows(acc.sum, Head(s))])

\* Mutant of calculate_mean: the accumulator starts at 1 instead of 0.
calculate_mean_from_one(s) ==
    DivTrunc(accumulate(s, [sum |-> FromInt(1, I64Limbs), overflowed |-> FALSE]).sum, Len(s))

\* The value calculate_mean returns for a non-empty s when it returns.
calculate_mean(s) ==
    DivTrunc(accumulate(s, [sum |-> Zeros(I64Limbs), overflowed |-> FALSE]).sum, Len(s))

\* Whether the call has undefined behaviour by signed overflow.
MeanOverflows(s) ==
    accumulate(s, [sum |-> Zeros(I64Limbs), overflowed |-> FALSE]).overflowed

\* A call of calculate_mean(v) on a non-empty v (the empty case divides by
\* zero and is excluded by the function's precondition).
CallMean ==
    /\ pc = "idle"
    /\ v # <<>>
    /\ IF MeanOverflows(v) /\ overflowMode = "trap"
       THEN pc' = "aborted" /\ ret' = NoRet
       ELSE pc' = "done" /\ ret' = [type |-> "int64", val |-> calculate_mean(v)]
    /\ op' = "mean"
    /\ UNCHANGED <<v, v0, hashOrder, overflowMode, handleVars>>

\* ------------------------------------------------------------------------
\* calculate_mode
\* ------------------------------------------------------------------------

\* counts[value]++ on the int mapped to value.
CountInc(c) == c + 1

\* counts[value]++: the map is the sequence of its <<key, count>> nodes in
\* iteration order.  A missing key is inserted with count 0 first.
CountValue(counts, value, order) ==
    IF \E i \in 1..Len(counts) : counts[i].key = value
    THEN [i \in 1..Len(counts) |->
             IF counts[i].key = value
             THEN [key |-> value, count |-> CountInc(counts[i].count)]
             ELSE counts[i]]
    ELSE IF order = "newest_first"
         THEN <<[key |-> value, count |-> CountInc(0)]>> \o counts
         ELSE Append(counts, [key |-> value, count |-> CountInc(0)])

\* for (int64_t value : v) counts[value]++;
RECURSIVE BuildCounts(_, _, _)
BuildCounts(s, counts, order) ==
    IF s = <<>> THEN counts
    ELSE BuildCounts(Tail(s), CountValue(counts, Head(s), order), order)

\* compareCounts: l.second <= r.second.
compareCounts(l, r) == l.count <= r.count

\* std::max_element(first, last, comp): the index of the largest node; the
\* candidate is replaced whenever comp(candidate, next) holds.
RECURSIVE max_element(_, _, _)
max_element(counts, largest, i) ==
    IF i > Len(counts) THEN largest
    ELSE max_element(counts,
                     IF compareCounts(counts[largest], counts[i]) THEN i ELSE largest,
                     i + 1)

\* Mutant of calculate_mode: the guard also sends a one-element s to 0.
calculate_mode_short_guard(s, order) ==
    IF Len(s) <= 1 THEN Zeros(I32Limbs)
    ELSE LET counts == BuildCounts(s, <<>>, order)
         IN  Truncate(counts[max_element(counts, 1, 2)].key, I32Limbs)

\* The int calculate_mode returns: 0 for an empty s, otherwise the key of the
\* node max_element selects, converted by static_cast<int>.
calculate_mode(s, order) ==
    IF s = <<>> THEN Zeros(I32Limbs)
    ELSE LET counts == BuildCounts(s, <<>>, order)
         IN  Truncate(counts[max_element(counts, 1, 2)].key, I32Limbs)

\* Mutant of CallMode: the mode is found by sorting the caller's vector in
\* place first.
CallModeSorting ==
    /\ pc = "idle"
    /\ pc' = "done"
    /\ op' = "mode"
    /\ v' = Sorted(v)
    /\ ret' = [type |-> "int", val |-> calculate_mode(v, hashOrder)]
    /\ UNCHANGED <<v0, hashOrder, overflowMode, handleVars>>

CallMode ==
    /\ pc = "idle"
    /\ pc' = "done"
    /\ op' = "mode"
    /\ ret' = [type |-> "int", val |-> calculate_mode(v, hashOrder)]
    /\ UNCHANGED <<v, v0, hashOrder, overflowMode, handleVars>>

\* The caller concatenates v with itself and calls calculate_mode on the
\* result; v itself is passed nowhere else and stays as it is.
CallModeRepeated ==
    /\ pc = "idle"
    /\ pc' = "done"
    /\ op' = "mode_repeated"
    /\ ret' = [type |-> "int", val |-> calculate_mode(v \o v, hashOrder)]
    /\ UNCHANGED <<v, v0, hashOrder, overflowMode, handleVars>>

\* ------------------------------------------------------------------------
\* calculate_median.  SchedulerUtils.h only declares it; its body is not in
\* the header.  It is modelled from the documented contract: 0 for an empty
\* vector, otherwise a partial reordering that puts at index floor(n/2) the
\* value a full sort would put there, and the return of that element.
\* ------------------------------------------------------------------------

\* Mutant of MedianIndex: the lower of the two middle positions.
MedianIndexLower(n) == (n - 1) \div 2

\* The 0-based index calculate_median reads: size / 2.
MedianIndex(n) == n \div 2

\* Mutant of nth_element: the order statistic is written to its slot and
\* nothing is moved.
nth_element_overwrite(s) ==
    LET k == MedianIndex(Len(s)) + 1
    IN  {[s EXCEPT ![k] = Sorted(s)[k]]}

\* The arrangements the partial reordering of a non-empty s may leave.
nth_element(s) ==
    LET k == MedianIndex(Len(s)) + 1
        kth == Sorted(s)[k]
    IN  {w \in {[i \in 1..Len(s) |-> s[p[i]]] : p \in Permutations(1..Len(s))} :
            w[k] = kth}

\* The value calculate_median returns.
calculate_median(s) ==
    IF s = <<>> THEN Zeros(I64Limbs) ELSE Sorted(s)[MedianIndex(Len(s)) + 1]

CallMedian ==
    /\ pc = "idle"
    /\ pc' = "done"
    /\ op' = "median"
    /\ IF v = <<>>
       THEN /\ v' = v
            /\ ret' = [type |-> "int64", val |-> calculate_median(v)]
       ELSE \E w \in nth_element(v) :
            /\ v' = w
            /\ ret' = [type |-> "int64", val |-> w[MedianIndex(Len(v)) + 1]]
    /\ UNCHANGED <<v0, hashOrder, overflowMode, handleVars>>

\* ------------------------------------------------------------------------
\* ConnectionHandle
\* ------------------------------------------------------------------------

\* static constexpr Id INVALID_ID = static_cast<Id>(-1), for an Id of n limbs.
INVALID_ID(n) == FromInt(-1, n)

\* ConnectionHandle{}: Id id = INVALID_ID.
DefaultHandle(n) == [id |-> INVALID_ID(n)]

\* ConnectionHandle{x}.
ConnectionHandle(x) == [id |-> x]

\* Mutant of operator_bool: 0 is taken for the invalid id.
operator_bool_nonzero(h) == h.id # Zeros(Len(h.id))

\* explicit operator bool() const { return id != INVALID_ID; }
operator_bool(h) == h.id # INVALID_ID(Len(h.id))

\* Mutant of operator_eq: handles compare by validity, not by id.
operator_eq_validity(lhs, rhs) == operator_bool(lhs) = operator_bool(rhs)

\* operator==(lhs, rhs): lhs.id == rhs.id.
operator_eq(lhs, rhs) == lhs.id = rhs.id

\* std::hash<Id>: the standard asks only that equal arguments hash equally.
\* Two builds: the identity (libstdc++, libc++) and a lossy mixing function.
HashKinds == {"identity", "mix"}

std_hash(id, kind) ==
    IF kind = "identity" THEN id
    ELSE Add(id, [i \in 1..Len(id) |-> id[Len(id) + 1 - i]])

\* std::hash<ConnectionHandle>::operator(): hash<Id>()(handle.id).
hash(handle, kind) == std_hash(handle.id, kind)

PtrWidths == {32 \div 16, 64 \div 16}

\* Ids handed to the constructor: 0, 1, 42, 2^16, 2^32 - 1 (INVALID_ID of a
\* 32-bit build, an ordinary id on a 64-bit one), all-ones minus one, all-ones.
IdSamples(n) ==
    {FromInt(0, n), FromInt(1, n), FromInt(42, n), FromInt(-1, n), FromInt(-2, n),
     [i \in 1..n |-> IF i = 2 THEN 1 ELSE 0],
     [i \in 1..n |-> IF i <= 2 THEN Base - 1 ELSE 0]}

ConstructA(x) ==
    /\ pc = "idle"
    /\ a' = ConnectionHandle(x)
    /\ aDefault' = FALSE
    /\ UNCHANGED <<pc, op, ret, reducerVars, b, truth, hashes, ptrLimbs, hashKind>>

ConstructB(x) ==
    /\ pc = "idle"
    /\ b' = ConnectionHandle(x)
    /\ UNCHANGED <<pc, op, ret, reducerVars, a, aDefault, truth, hashes, ptrLimbs, hashKind>>

\* static_cast<bool>(a)
CallBool ==
    /\ pc = "idle"
    /\ pc' = "done"
    /\ op' = "bool"
    /\ truth' = operator_bool(a)
    /\ UNCHANGED <<ret, reducerVars, a, b, aDefault, hashes, ptrLimbs, hashKind>>

\* a == b
CallEq ==
    /\ pc = "idle"
    /\ pc' = "done"
    /\ op' = "eq"
    /\ truth' = operator_eq(a, b)
    /\ UNCHANGED <<ret, reducerVars, a, b, aDefault, hashes, ptrLimbs, hashKind>>

\* std::hash<ConnectionHandle>()(a) and std::hash<ConnectionHandle>()(b)
CallHash ==
    /\ pc = "idle"
    /\ pc' = "done"
    /\ op' = "hash"
    /\ hashes' = <<hash(a, hashKind), hash(b, hashKind)>>
    /\ UNCHANGED <<ret, reducerVars, a, b, aDefault, truth, ptrLimbs, hashKind>>

\* ------------------------------------------------------------------------
\* Specifications
\* ------------------------------------------------------------------------

\* The reducers: every sample sequence up to MaxLen, on every build.
Init ==
    /\ v \in SeqsUpTo(MaxLen)
    /\ v0 = v
    /\ pc = "idle"
    /\ op = "none"
    /\ ret = NoRet
    /\ hashOrder \in HashOrders
    /\ overflowMode \in OverflowModes
    /\ ptrLimbs = I64Limbs
    /\ hashKind = "identity"
    /\ a = DefaultHandle(ptrLimbs)
    /\ b = DefaultHandle(ptrLimbs)
    /\ aDefault = TRUE
    /\ truth = FALSE
    /\ hashes = <<>>

Next == CallMean \/ CallMedian \/ CallMode \/ CallModeRepeated

Spec == Init /\ [][Next]_vars

\* The handles: two default-constructed handles on every build.
HandleInit ==
    /\ v = <<>>
    /\ v0 = v
    /\ pc = "idle"
    /\ op = "none"
    /\ ret = NoRet
    /\ hashOrder = "newest_first"
    /\ overflowMode = "wrap"
    /\ ptrLimbs \in PtrWidths
    /\ hashKind \in HashKinds
    /\ a = DefaultHandle(ptrLimbs)
    /\ b = DefaultHandle(ptrLimbs)
    /\ aDefault = TRUE
    /\ truth = FALSE
    /\ hashes = <<>>

HandleNext ==
    \/ \E x \in IdSamples(ptrLimbs) : ConstructA(x)
    \/ \E x \in IdSamples(ptrLimbs) : ConstructB(x)
    \/ CallBool
    \/ CallEq
    \/ CallHash

HandleSpec == HandleInit /\ [][HandleNext]_vars

\* ------------------------------------------------------------------------
\* Reference notions used by the properties (exact, never wrapping)
\* ------------------------------------------------------------------------

Range(s) == {s[i] : i \in DOMAIN s}

Count(s, x) == Cardinality({i \in DOMAIN s : s[i] = x})

FirstIndex(s, x) == CHOOSE i \in DOMAIN s : s[i] = x /\ \A j \in 1..(i - 1) : s[j] # x

\* The values of s no other value of s occurs more often than.
MaxCountValues(s) == {x \in Range(s) : \A y \in Range(s) : Count(s, y) <= Count(s, x)}

\* Among them, the one seen first in a left-to-right traversal.
FirstSeenMode(s) ==
    CHOOSE x \in MaxCountValues(s) :
        \A y \in MaxCountValues(s) : FirstIndex(s, x) <= FirstIndex(s, y)

\* The returned integer as a 64-bit value (value-preserving conversion).
AsInt64(r) == Extend(r.val, I64Limbs)

RECURSIVE ExactSum(_)
ExactSum(s) ==
    IF s = <<>> THEN Zeros(WideLimbs)
    ELSE Add(Extend(Head(s), WideLimbs), ExactSum(Tail(s)))

RECURSIVE MulSmall(_, _)
MulSmall(w, n) == IF n = 0 THEN Zeros(Len(w)) ELSE Add(w, MulSmall(w, n - 1))

\* The wide value w is in the range of int64_t.
Fits64(w) == Extend(Truncate(w, I64Limbs), WideLimbs) = w

\* Every partial sum s[1] + ... + s[i] is in the range of int64_t.
PartialSumsFit(s) == \A i \in 1..Len(s) : Fits64(ExactSum(SubSeq(s, 1, i)))

\* q is S / n truncated toward zero: S = q * n + r with |r| < n and r zero
\* or of the sign of S.
IsTruncQuotient(S, n, q) ==
    LET R == Sub(S, MulSmall(Extend(q, WideLimbs), n))
    IN  \E r \in (1 - n)..(n - 1) :
            /\ R = FromInt(r, WideLimbs)
            /\ r = 0 \/ ((r < 0) <=> IsNeg(S))

IsConstant(s) == s # <<>> /\ \A i \in DOMAIN s : s[i] = s[1]

Permuted(s, p) == [i \in 1..Len(s) |-> s[p[i]]]

\* ------------------------------------------------------------------------
\* Properties
\* ------------------------------------------------------------------------

\* C1: when two or more distinct values of a non-empty v are tied for the
\* maximum occurrence count, calculate_mode(v) returns the tied value whose
\* first occurrence is leftmost in v.
C1_ModeTieFirstSeen ==
    (pc = "done" /\ op = "mode" /\ v0 # <<>> /\ Cardinality(MaxCountValues(v0)) >= 2)
        => AsInt64(ret) = FirstSeenMode(v0)

\* C2: for a non-empty v, calculate_mode(v) returns an element of v whose
\* occurrence count in v is maximal, for every 64-bit sample value.
C2_ModeIsMostFrequentElement ==
    (pc = "done" /\ op = "mode" /\ v0 # <<>>) => AsInt64(ret) \in MaxCountValues(v0)

\* C3 as stated: for a non-empty v whose sum fits in 64 bits, calculate_mean(v)
\* returns the sum divided by the count, truncated toward zero.
C3_MeanTruncatesWhenSumFits ==
    (op = "mean" /\ Fits64(ExactSum(v0)))
        => (pc = "done" /\ IsTruncQuotient(ExactSum(v0), Len(v0), ret.val))

\* C3 as amended: for a non-empty v all of whose partial sums (left to right)
\* fit in 64 bits, calculate_mean(v) returns the sum divided by the count,
\* truncated toward zero, for positive and negative sums alike.
C3_MeanTruncatesWhenPartialSumsFit ==
    (op = "mean" /\ PartialSumsFit(v0))
        => (pc = "done" /\ IsTruncQuotient(ExactSum(v0), Len(v0), ret.val))

\* A mean was taken of a sequence with a negative sum the count does not divide.
C3_Witness ==
    /\ pc = "done" /\ op = "mean" /\ PartialSumsFit(v0)
    /\ IsNeg(ExactSum(v0))
    /\ MulSmall(Extend(ret.val, WideLimbs), Len(v0)) # ExactSum(v0)

\* C4 as stated: calculate_mean of the constant sequence [k, ..., k] of any
\* length n >= 1 returns k, for every 64-bit k.
C4_MeanOfConstantIsK ==
    (op = "mean" /\ IsConstant(v0)) => (pc = "done" /\ ret.val = v0[1])

\* C4 as amended: calculate_mean of the constant sequence [k, ..., k] of
\* length n >= 1 returns k whenever n * k fits in 64 bits.
C4_MeanOfConstantIsKWhenProductFits ==
    (op = "mean" /\ IsConstant(v0) /\ Fits64(MulSmall(Extend(v0[1], WideLimbs), Len(v0))))
        => (pc = "done" /\ ret.val = v0[1])

\* A mean was taken of [k, k, ...] with k outside the range of int.
C4_Witness ==
    /\ pc = "done" /\ op = "mean" /\ IsConstant(v0) /\ Len(v0) >= 2
    /\ v0[1] = Above32 /\ ret.val = Above32

\* C5: calculate_median returns 0 for an empty sequence and otherwise the value
\* at index floor(n/2) of the sorted arrangement (at most floor(n/2) elements
\* are smaller, more than floor(n/2) are not larger); every permutation of the
\* same elements gives the same result.
C5_MedianIsUpperMiddle ==
    (pc = "done" /\ op = "median") =>
        IF v0 = <<>> THEN ret.val = Zeros(I64Limbs)
        ELSE LET k == Len(v0) \div 2
             IN  /\ ret.val \in Range(v0)
                 /\ Cardinality({i \in DOMAIN v0 : Less(v0[i], ret.val)}) <= k
                 /\ Cardinality({i \in DOMAIN v0 : ~Less(ret.val, v0[i])}) > k
                 /\ \A p \in Permutations(DOMAIN v0) :
                        calculate_median(Permuted(v0, p)) = ret.val

\* A median was taken of two different values, and it is the larger one.
C5_Witness ==
    /\ pc = "done" /\ op = "median" /\ Len(v0) = 2
    /\ Less(v0[2], v0[1]) /\ ret.val = v0[1]

\* C6: after calculate_median on a non-empty sequence of length n the sequence
\* is a permutation of what it was, and its element at index floor(n/2) is the
\* returned median.
C6_MedianPermutesInPlace ==
    (pc = "done" /\ op = "median" /\ v0 # <<>>) =>
        /\ Len(v) = Len(v0)
        /\ \A x \in Range(v0) \cup Range(v) : Count(v, x) = Count(v0, x)
        /\ v[Len(v0) \div 2 + 1] = ret.val

\* A median call that did reorder the caller's sequence.
C6_Witness == pc = "done" /\ op = "median" /\ v # v0

\* C7: a == b holds exactly when a.id == b.id, and equal handles have equal
\* hashes.
C7_EqualityAndHashAgree ==
    /\ (pc = "done" /\ op = "eq") => (truth <=> a.id = b.id)
    /\ (pc = "done" /\ op = "hash" /\ operator_eq(a, b)) => hashes[1] = hashes[2]

\* Two handles built from the same valid id were hashed by a mixing hash.
C7_Witness ==
    /\ pc = "done" /\ op = "hash" /\ ~aDefault
    /\ a.id = b.id /\ a.id = FromInt(42, ptrLimbs) /\ hashKind = "mix"

\* C8: a default-constructed handle converts to false, and a handle converts to
\* true exactly when its id differs from the all-ones word.
C8_ValidIffNotAllOnes ==
    (pc = "done" /\ op = "bool") =>
        /\ aDefault => ~truth
        /\ truth <=> a.id # [i \in 1..ptrLimbs |-> Base - 1]

\* A handle built from 2^32 - 1 on a 64-bit build converted to true.
C8_Witness ==
    /\ pc = "done" /\ op = "bool" /\ ~aDefault /\ truth
    /\ ptrLimbs = I64Limbs /\ Truncate(a.id, I32Limbs) = INVALID_ID(I32Limbs)

\* C9: calculate_mean and calculate_mode leave the sequence as it was: same
\* length, same element at every index.
C9_MeanModeLeaveInputUnchanged ==
    (op \in {"mean", "mode"}) =>
        /\ Len(v) = Len(v0)
        /\ \A i \in DOMAIN v0 : v[i] = v0[i]

\* A mode was taken of a sequence that is not in ascending order.
C9_Witness ==
    /\ pc = "done" /\ op = "mode"
    /\ \E i \in 1..(Len(v0) - 1) : Less(v0[i + 1], v0[i])

\* C10: calculate_mode(v ++ v) equals calculate_mode(v); both are 0 for the
\* empty sequence.
C10_ModeOfRepetition ==
    (pc = "done" /\ op = "mode_repeated") =>
        /\ ret.val = calculate_mode(v0, hashOrder)
        /\ v0 = <<>> => ret.val = Zeros(I32Limbs)

\* The mode of v ++ v was taken for a v with several values tied for the
\* maximum count.
C10_Witness ==
    /\ pc = "done" /\ op = "mode_repeated"
    /\ v0 # <<>> /\ Cardinality(MaxCountValues(v0)) >= 2

====
